---- MODULE Spec2Model ----
(***************************************************************************)
(* Model of eduvpn/nm.py (connection lifecycle against NetworkManager) and *)
(* eduvpn/crypto.py (minisign signature validation).                       *)
(*                                                                         *)
(* nm.py is single threaded: every function body runs to its end without   *)
(* interleaving, so each function entry and each completion handler is one *)
(* action.  The GLib main context dispatches completions of asynchronous   *)
(* requests and idle sources in any order.  NetworkManager itself and the  *)
(* user acting on it through other tools are environment actions.          *)
(***************************************************************************)
EXTENDS Integers, Sequences, FiniteSets, TLC

\* ---------------------------------------------------------------- bounds
MaxCalls == 2          \* API calls issued in one run
MaxResolutions == 3    \* resolutions of one activate call that the model follows
MaxKeys == 3           \* signing key pairs that exist
MaxAnchors == 2        \* length of VERIFY_KEYS
MaxMessageLen == 1     \* length of a signed document, in bytes
MaxActive == 3         \* active connections the manager enumerates

\* ------------------------------------------------------------- constants
None == 0              \* Python None (and the empty uuid): falsy in `if uuid:`
PrefixLen == 10        \* bytes of algorithm tag and key id dropped by [10:]
PublicKeyLen == 32     \* bytes of an Ed25519 public key
crypto_sign_BYTES == 64  \* bytes of an Ed25519 signature

Calls == 1..MaxCalls
\* uuids that import_ovpn gives to imported connections, in order of import
ImportedUuids == 1..MaxCalls
\* the uuid of a connection that is not the client's (the wired connection)
ExternalUuid == MaxCalls + 1
Uuids == ImportedUuids \cup {ExternalUuid}

VARIABLES
    stored_uuid,   \* eduvpn.storage get_uuid()/set_uuid(): the persisted id or None
    next_uuid,     \* uuid the next imported connection gets
    connections,   \* uuids client.get_connection_by_uuid resolves
    settings,      \* settings[u]: the profile whose settings connection u holds
    active,        \* uuids of the active connections
    primary,       \* client.get_primary_connection(): a uuid or None
    in_flight,     \* asynchronous requests the manager has not completed yet
    idle,          \* idle sources scheduled with GLib.idle_add
    main_loop,     \* the call whose wrapper is inside main_loop.run(), or None
    calls,         \* the calls issued so far, in order, with their arguments
    path,          \* path[c]: the branch the first entry of call c took
    seen,          \* seen[c]: what get_uuid() returned to save_connection call c
    resolutions,   \* resolutions[c]: get_connection_by_uuid calls of activate c
    scheduled,     \* scheduled[c]: idle sources added on behalf of call c
    requests,      \* requests[c]: asynchronous requests issued on behalf of c
    outcome,       \* outcome[c]: how the last request of call c completed
    errors,        \* errors[c]: what became of an exception in a completion handler of c
    plugins,       \* NM.VpnPluginInfo entries whose name is "openvpn"
    temp_dirs,     \* directories made by mkdtemp that still exist
    cb_count,      \* cb_count[c]: invocations of the callback given to call c
    cb_arg,        \* cb_arg[c]: the argument of its last invocation
    anchors,       \* the key pairs whose public keys are in VERIFY_KEYS, in order
    signer,        \* the key pair that signed the document
    signed,        \* the bytes that were signed
    content,       \* the bytes given to validate as content
    damage,        \* what happened to the signature file on its way to validate
    nacl_checks_length,  \* whether the installed PyNaCl checks the signature length
    result,        \* what validate returned or raised
    nm_active,     \* the active connections, in the order the manager lists them
    nm_primary,    \* position in nm_active of the primary connection, or None
    state_reports, \* arguments of each call of init_dbus_system_bus's callback
    polled,        \* what connection_status returned, once called
    vpn_status,    \* what get_vpn_status returned, once called
    warnings       \* the functions that logged a warning

manager == <<connections, settings, active, primary>>
loop == <<in_flight, idle, main_loop>>
history == <<calls, path, seen, resolutions, scheduled, requests, outcome, errors>>
callbacks == <<cb_count, cb_arg>>
crypto == <<anchors, signer, signed, content, damage, nacl_checks_length, result>>
observer == <<nm_active, nm_primary, state_reports, polled, vpn_status, warnings>>
\* what the connection lifecycle functions of nm.py neither read nor write,
\* and the plugin registry, which they only read
outside == <<plugins, crypto, observer>>
vars == <<stored_uuid, next_uuid, manager, loop, history, callbacks, temp_dirs, outside>>

NotValidated == [status |-> "none", message |-> <<>>, tried |-> 0]

\* No document is being validated.
CryptoIdle ==
    /\ anchors = <<>>
    /\ signer = 1
    /\ signed = <<>>
    /\ content = <<>>
    /\ damage = "none"
    /\ nacl_checks_length = TRUE
    /\ result = NotValidated

\* No state query has been made.
ObserverIdle ==
    /\ nm_active = <<>>
    /\ nm_primary = None
    /\ state_reports = <<>>
    /\ polled = <<>>
    /\ vpn_status = <<>>
    /\ warnings = {}

NMInit ==
    /\ stored_uuid = None
    /\ next_uuid = 1
    /\ connections = {ExternalUuid}
    /\ settings = [u \in Uuids |-> None]
    /\ active = {ExternalUuid}
    /\ primary = ExternalUuid
    /\ in_flight = {}
    /\ idle = {}
    /\ main_loop = None
    /\ calls = <<>>
    /\ path = [c \in Calls |-> "none"]
    /\ seen = [c \in Calls |-> None]
    /\ resolutions = [c \in Calls |-> 0]
    /\ scheduled = [c \in Calls |-> 0]
    /\ requests = [c \in Calls |-> 0]
    /\ outcome = [c \in Calls |-> "pending"]
    /\ errors = [c \in Calls |-> "none"]
    /\ temp_dirs = 0
    /\ cb_count = [c \in Calls |-> 0]
    /\ cb_arg = [c \in Calls |-> "never"]

\* No, one or more than one plugin info named openvpn.
PluginCounts == {0, 1, 2}

\* The openvpn plugin is installed, as the package requires.
PluginInstalled == plugins = 1

Init ==
    /\ NMInit
    /\ plugins \in PluginCounts
    /\ CryptoIdle
    /\ ObserverIdle

\* eduvpn.storage: the persisted identifier store, get() -> id or None, set(id).
get_uuid == stored_uuid
set_uuid(uuid) == stored_uuid' = uuid

\* An asynchronous request handed to the manager; user_data is the callback
\* (named by the call it was given to) or None.
Request(kind, con, config, user_data, c) ==
    [kind |-> kind, con |-> con, config |-> config, user_data |-> user_data,
     origin |-> c, n |-> requests[c] + 1]

\* callback(arg), where the callback of a wrapped call is quit_loop.
invoke(callback, arg) ==
    /\ cb_count' = [cb_count EXCEPT ![callback] = @ + 1]
    /\ cb_arg' = [cb_arg EXCEPT ![callback] = arg]
    /\ main_loop' = IF main_loop = callback THEN None ELSE main_loop

\* ------------------------------------------------- nm.py: save_connection

\* nm_ovpn_import returns a connection when exactly one plugin info is named
\* openvpn; otherwise it raises.
imported == plugins = 1

\* import_ovpn: mkdtemp, write_config into the directory, nm_ovpn_import of
\* the file, rmtree of the directory, return the connection.  The exception
\* of nm_ovpn_import leaves import_ovpn before the rmtree.
import_ovpn ==
    /\ temp_dirs' = IF imported THEN temp_dirs ELSE temp_dirs + 1
    /\ next_uuid' = IF imported THEN next_uuid + 1 ELSE next_uuid

\* add_connection: client.add_connection_async(connection, save_to_disk=True,
\* callback=add_connection_callback, user_data=callback)
add_connection(c, connection, config, callback) ==
    /\ in_flight' = in_flight \cup {Request("add", connection, config, callback, c)}
    /\ requests' = [requests EXCEPT ![c] = @ + 1]

\* update_connection that registers the new connection as well, as
\* save_connection would without its `return` after update_connection.
update_connection_and_add(c, old_con, config, callback) ==
    /\ settings' = [settings EXCEPT ![old_con] = config]
    /\ in_flight' = in_flight \cup {Request("commit", old_con, config, callback, c),
                                    Request("add", next_uuid, config, callback, c)}
    /\ requests' = [requests EXCEPT ![c] = @ + 2]

\* update_connection: old_con.replace_settings_from_connection(new_con), then
\* old_con.commit_changes_async(..., callback=update_connection_callback,
\* user_data=callback)
update_connection(c, old_con, config, callback) ==
    /\ settings' = [settings EXCEPT ![old_con] = config]
    /\ in_flight' = in_flight \cup {Request("commit", old_con, config, callback, c)}
    /\ requests' = [requests EXCEPT ![c] = @ + 1]

\* save_connection without its `if old_con:` test: any stored uuid is taken
\* to resolve.
save_connection_unchecked(c, callback) ==
    LET new_con == next_uuid
        uuid == get_uuid
    IN  /\ import_ovpn
        /\ IF ~imported
           THEN /\ path' = [path EXCEPT ![c] = "import_failed"]
                /\ UNCHANGED <<seen, settings, in_flight, requests>>
           ELSE /\ seen' = [seen EXCEPT ![c] = uuid]
                /\ IF uuid # None
                   THEN /\ update_connection(c, uuid, c, callback)
                        /\ path' = [path EXCEPT ![c] = "update"]
                   ELSE /\ add_connection(c, new_con, c, callback)
                        /\ path' = [path EXCEPT ![c] = "insert"]
                        /\ UNCHANGED settings
        /\ UNCHANGED <<stored_uuid, connections, active, primary, idle,
                       resolutions, scheduled, outcome, callbacks, errors>>

\* save_connection that stores the uuid of the new connection when it hands
\* the add to the manager, before the add has completed.
save_connection_stores_early(c, callback) ==
    LET new_con == next_uuid
        uuid == get_uuid
    IN  /\ import_ovpn
        /\ IF ~imported
           THEN /\ path' = [path EXCEPT ![c] = "import_failed"]
                /\ UNCHANGED <<seen, settings, in_flight, requests, stored_uuid>>
           ELSE /\ seen' = [seen EXCEPT ![c] = uuid]
                /\ IF uuid # None /\ uuid \in connections
                   THEN /\ update_connection(c, uuid, c, callback)
                        /\ path' = [path EXCEPT ![c] = "update"]
                        /\ UNCHANGED stored_uuid
                   ELSE /\ add_connection(c, new_con, c, callback)
                        /\ path' = [path EXCEPT ![c] = "insert"]
                        /\ set_uuid(new_con)
                        /\ UNCHANGED settings
        /\ UNCHANGED <<connections, active, primary, idle,
                       resolutions, scheduled, outcome, callbacks, errors>>

\* save_connection: import the profile of call c (the new connection gets a
\* fresh uuid), read the stored uuid, update the connection it resolves to or
\* else add the new one.  The exception of a failed import leaves
\* save_connection before it does anything else.
save_connection(c, callback) ==
    LET new_con == next_uuid
        uuid == get_uuid
    IN  /\ import_ovpn
        /\ IF ~imported
           THEN /\ path' = [path EXCEPT ![c] = "import_failed"]
                /\ UNCHANGED <<seen, settings, in_flight, requests>>
           ELSE /\ seen' = [seen EXCEPT ![c] = uuid]
                /\ IF uuid # None /\ uuid \in connections
                   THEN /\ update_connection(c, uuid, c, callback)
                        /\ path' = [path EXCEPT ![c] = "update"]
                   ELSE /\ add_connection(c, new_con, c, callback)
                        /\ path' = [path EXCEPT ![c] = "insert"]
                        /\ UNCHANGED settings
        /\ UNCHANGED <<stored_uuid, connections, active, primary, idle,
                       resolutions, scheduled, outcome, callbacks, errors>>

\* add_connection_callback without its set_uuid.
add_connection_callback_no_set_uuid(r, ok) ==
    /\ UNCHANGED stored_uuid
    /\ errors' = [errors EXCEPT ![r.origin] = IF ok THEN @ ELSE "raised"]
    /\ IF ok /\ r.user_data # None
       THEN invoke(r.user_data, "True")
       ELSE UNCHANGED <<callbacks, main_loop>>

\* add_connection_callback: add_connection_finish raises when the manager
\* rejected the add, and nothing after it runs; otherwise set_uuid, then the
\* callback (if any) with `new_con is not None`.
add_connection_callback(r, ok) ==
    IF ok
    THEN /\ set_uuid(r.con)
         /\ IF r.user_data # None
            THEN invoke(r.user_data, "True")
            ELSE UNCHANGED <<callbacks, main_loop>>
         /\ UNCHANGED errors
    ELSE /\ errors' = [errors EXCEPT ![r.origin] = "raised"]
         /\ UNCHANGED <<stored_uuid, callbacks, main_loop>>

\* update_connection_callback: commit_changes_finish raises when the manager
\* rejected the commit; otherwise the callback (if any) gets `result`, the
\* GAsyncResult object.
update_connection_callback(r, ok) ==
    /\ UNCHANGED stored_uuid
    /\ errors' = [errors EXCEPT ![r.origin] = IF ok THEN @ ELSE "raised"]
    /\ IF ok /\ r.user_data # None
       THEN invoke(r.user_data, "result")
       ELSE UNCHANGED <<callbacks, main_loop>>

\* --------------------------------------------- nm.py: activate_connection

\* activate_connection whose idle lambda returns True, so that GLib keeps the
\* source after it ran.
activate_connection_keeps_source(c, uuid, callback, sources) ==
    /\ resolutions' = [resolutions EXCEPT ![c] = @ + 1]
    /\ IF uuid \notin connections
       THEN /\ idle' = idle \cup
                  {[uuid |-> uuid, callback |-> None, origin |-> c, n |-> scheduled[c] + 1]}
            /\ scheduled' = [scheduled EXCEPT ![c] = @ + 1]
            /\ path' = [path EXCEPT ![c] = IF @ = "none" THEN "retry" ELSE @]
            /\ UNCHANGED <<in_flight, requests>>
       ELSE /\ in_flight' = in_flight \cup {Request("activate", uuid, None, callback, c)}
            /\ requests' = [requests EXCEPT ![c] = @ + 1]
            /\ path' = [path EXCEPT ![c] = IF @ = "none" THEN "activate" ELSE @]
            /\ idle' = idle
            /\ UNCHANGED scheduled
    /\ UNCHANGED <<stored_uuid, next_uuid, manager, seen, outcome, callbacks,
                   temp_dirs, errors>>

\* activate_connection(client, uuid, callback) entered on behalf of call c;
\* sources is what remains scheduled when the entry runs.  When the uuid does
\* not resolve: GLib.idle_add(lambda: activate_connection(client, uuid)); the
\* lambda passes no callback.
activate_connection(c, uuid, callback, sources) ==
    /\ resolutions' = [resolutions EXCEPT ![c] = @ + 1]
    /\ IF uuid \notin connections
       THEN /\ idle' = sources \cup
                  {[uuid |-> uuid, callback |-> None, origin |-> c, n |-> scheduled[c] + 1]}
            /\ scheduled' = [scheduled EXCEPT ![c] = @ + 1]
            /\ path' = [path EXCEPT ![c] = IF @ = "none" THEN "retry" ELSE @]
            /\ UNCHANGED <<in_flight, requests>>
       ELSE /\ in_flight' = in_flight \cup {Request("activate", uuid, None, callback, c)}
            /\ requests' = [requests EXCEPT ![c] = @ + 1]
            /\ path' = [path EXCEPT ![c] = IF @ = "none" THEN "activate" ELSE @]
            /\ idle' = sources
            /\ UNCHANGED scheduled
    /\ UNCHANGED <<stored_uuid, next_uuid, manager, seen, outcome, callbacks,
                   temp_dirs, errors>>

\* activate_connection_callback with `callback()` at the end of the `try`
\* block instead of in `finally`.
activate_connection_callback_in_try(r, ok) ==
    /\ UNCHANGED stored_uuid
    /\ errors' = [errors EXCEPT ![r.origin] = IF ok THEN @ ELSE "logged"]
    /\ IF ok /\ r.user_data # None
       THEN invoke(r.user_data, "no_args")
       ELSE UNCHANGED <<callbacks, main_loop>>

\* activate_connection_callback: the exception of activate_connection_finish
\* is caught and logged; `finally` invokes the callback if there is one.
activate_connection_callback(r, ok) ==
    /\ UNCHANGED stored_uuid
    /\ errors' = [errors EXCEPT ![r.origin] = IF ok THEN @ ELSE "logged"]
    /\ IF r.user_data # None
       THEN invoke(r.user_data, "no_args")
       ELSE UNCHANGED <<callbacks, main_loop>>

\* ------------------------------------------- nm.py: deactivate_connection

\* deactivate_connection without its `uuid == active_uuid` test.
deactivate_connection_any_primary(c, uuid, callback) ==
    LET con == primary
    IN  /\ IF con # None
           THEN /\ in_flight' = in_flight \cup
                       {Request("deactivate", con, None, callback, c)}
                /\ requests' = [requests EXCEPT ![c] = @ + 1]
                /\ path' = [path EXCEPT ![c] = IF uuid = con THEN "deactivate" ELSE "mismatch"]
           ELSE /\ path' = [path EXCEPT ![c] = "no_primary"]
                /\ UNCHANGED <<in_flight, requests>>
        /\ UNCHANGED <<stored_uuid, next_uuid, manager, idle, seen, resolutions,
                       scheduled, outcome, callbacks, temp_dirs, errors>>

\* deactivate_connection: request the deactivation of the primary connection
\* when there is one and its uuid is the given one; otherwise return.
deactivate_connection(c, uuid, callback) ==
    LET con == primary
    IN  /\ IF con # None
           THEN IF uuid = con
                THEN /\ in_flight' = in_flight \cup
                            {Request("deactivate", con, None, callback, c)}
                     /\ requests' = [requests EXCEPT ![c] = @ + 1]
                     /\ path' = [path EXCEPT ![c] = "deactivate"]
                ELSE /\ path' = [path EXCEPT ![c] = "mismatch"]
                     /\ UNCHANGED <<in_flight, requests>>
           ELSE /\ path' = [path EXCEPT ![c] = "no_primary"]
                /\ UNCHANGED <<in_flight, requests>>
        /\ UNCHANGED <<stored_uuid, next_uuid, manager, idle, seen, resolutions,
                       scheduled, outcome, callbacks, temp_dirs, errors>>

\* on_deactivate_connection: as activate_connection_callback.
on_deactivate_connection(r, ok) ==
    /\ UNCHANGED stored_uuid
    /\ errors' = [errors EXCEPT ![r.origin] = IF ok THEN @ ELSE "logged"]
    /\ IF r.user_data # None
       THEN invoke(r.user_data, "no_args")
       ELSE UNCHANGED <<callbacks, main_loop>>

\* ------------------------------------------------------------ API calls

\* A call enters the module from the thread that owns the main context, which
\* is not possible while that thread is inside a wrapper's main_loop.run().
\* The call record notes whether an add or a commit was in flight at the time.
Enter(op, uuid, callback, wrapped) ==
    /\ Len(calls) < MaxCalls
    /\ main_loop = None
    /\ calls' = Append(calls, [op |-> op, uuid |-> uuid, callback |-> callback,
                               wrapped |-> wrapped,
                               overlap |-> \E r \in in_flight : r.kind \in {"add", "commit"}])
    /\ UNCHANGED outside

NextCall == Len(calls) + 1

CallSave(has_callback) ==
    /\ Enter("save", None, has_callback, FALSE)
    /\ save_connection(NextCall, IF has_callback THEN NextCall ELSE None)
    /\ UNCHANGED main_loop

CallActivate(uuid, has_callback) ==
    /\ Enter("activate", uuid, has_callback, FALSE)
    /\ activate_connection(NextCall, uuid, IF has_callback THEN NextCall ELSE None, idle)
    /\ UNCHANGED main_loop

CallDeactivate(uuid, has_callback) ==
    /\ Enter("deactivate", uuid, has_callback, FALSE)
    /\ deactivate_connection(NextCall, uuid, IF has_callback THEN NextCall ELSE None)
    /\ UNCHANGED main_loop

\* action_with_mainloop: action(callback=quit_loop), then main_loop.run().
\* quit_loop is the callback named by the call.  An exception of the action
\* leaves the wrapper before main_loop.run().
save_connection_with_mainloop ==
    /\ Enter("save", None, TRUE, TRUE)
    /\ save_connection(NextCall, NextCall)
    /\ main_loop' = IF imported THEN NextCall ELSE None

activate_connection_with_mainloop(uuid) ==
    /\ Enter("activate", uuid, TRUE, TRUE)
    /\ activate_connection(NextCall, uuid, NextCall, idle)
    /\ main_loop' = NextCall

deactivate_connection_with_mainloop(uuid) ==
    /\ Enter("deactivate", uuid, TRUE, TRUE)
    /\ deactivate_connection(NextCall, uuid, NextCall)
    /\ main_loop' = NextCall

\* ------------------------------------------- main context dispatch steps

\* The idle source runs its lambda once: the lambda returns None, which
\* removes the source.
IdleDispatch(s) ==
    /\ s \in idle
    /\ resolutions[s.origin] < MaxResolutions
    /\ activate_connection(s.origin, s.uuid, s.callback, idle \ {s})
    /\ UNCHANGED <<calls, main_loop, outside>>

Completed(r, ok) ==
    /\ r \in in_flight
    /\ in_flight' = in_flight \ {r}
    /\ outcome' = [outcome EXCEPT ![r.origin] = IF ok THEN "ok" ELSE "rejected"]
    /\ UNCHANGED <<next_uuid, idle, calls, path, seen, resolutions, scheduled, requests,
                   temp_dirs, outside>>

\* The manager completes an add: the connection exists from then on.
AddCompletes(r, ok) ==
    /\ r.kind = "add"
    /\ Completed(r, ok)
    /\ IF ok
       THEN /\ connections' = connections \cup {r.con}
            /\ settings' = [settings EXCEPT ![r.con] = r.config]
       ELSE UNCHANGED <<connections, settings>>
    /\ UNCHANGED <<active, primary>>
    /\ add_connection_callback(r, ok)

\* The manager completes a commit; it fails for a connection deleted meanwhile.
CommitCompletes(r, ok) ==
    /\ r.kind = "commit"
    /\ ok => r.con \in connections
    /\ Completed(r, ok)
    /\ UNCHANGED manager
    /\ update_connection_callback(r, ok)

\* The manager completes an activation.
ActivateCompletes(r, ok) ==
    /\ r.kind = "activate"
    /\ ok => r.con \in connections
    /\ Completed(r, ok)
    /\ active' = IF ok THEN active \cup {r.con} ELSE active
    /\ UNCHANGED <<connections, settings, primary>>
    /\ activate_connection_callback(r, ok)

\* The manager completes a deactivation.
DeactivateCompletes(r, ok) ==
    /\ r.kind = "deactivate"
    /\ ok => r.con \in active
    /\ Completed(r, ok)
    /\ active' = IF ok THEN active \ {r.con} ELSE active
    /\ primary' = IF ok /\ primary = r.con THEN None ELSE primary
    /\ UNCHANGED <<connections, settings>>
    /\ on_deactivate_connection(r, ok)

\* ---------------------------------------------------------- environment

\* Someone deletes a connection with another tool.
ExternalDelete(u) ==
    /\ u \in connections
    /\ connections' = connections \ {u}
    /\ settings' = [settings EXCEPT ![u] = None]
    /\ active' = active \ {u}
    /\ primary' = IF primary = u THEN None ELSE primary
    /\ UNCHANGED <<stored_uuid, next_uuid, loop, history, callbacks, temp_dirs, outside>>

\* The manager makes another active connection (or none) the primary one.
PrimaryChange(p) ==
    /\ p \in (active \cup {None}) \ {primary}
    /\ primary' = p
    /\ UNCHANGED <<stored_uuid, next_uuid, connections, settings, active, loop,
                   history, callbacks, temp_dirs, outside>>

Next ==
    \/ \E cb \in BOOLEAN : CallSave(cb)
    \/ \E u \in Uuids, cb \in BOOLEAN : CallActivate(u, cb)
    \/ \E u \in Uuids, cb \in BOOLEAN : CallDeactivate(u, cb)
    \/ save_connection_with_mainloop
    \/ \E u \in Uuids : activate_connection_with_mainloop(u)
    \/ \E u \in Uuids : deactivate_connection_with_mainloop(u)
    \/ \E s \in idle : IdleDispatch(s)
    \/ \E r \in in_flight, ok \in BOOLEAN : AddCompletes(r, ok)
    \/ \E r \in in_flight, ok \in BOOLEAN : CommitCompletes(r, ok)
    \/ \E r \in in_flight, ok \in BOOLEAN : ActivateCompletes(r, ok)
    \/ \E r \in in_flight, ok \in BOOLEAN : DeactivateCompletes(r, ok)
    \/ \E u \in Uuids : ExternalDelete(u)
    \/ \E p \in Uuids \cup {None} : PrimaryChange(p)

Spec == Init /\ [][Next]_vars

\* ============================================================== crypto.py

Keys == 1..MaxKeys
Zeros(n) == [i \in 1..n |-> 0]

\* ------------------------------------------------------------ base64
\* A base64 string (a Python str) is a sequence of alphabet positions 0..63,
\* of Pad ('='), of ASCII characters that are not in the alphabet, such as
\* JunkChar, and of characters that are not ASCII, such as NonAsciiChar.
Pad == 64
JunkChar == 65
NonAsciiChar == 66

\* base64.b64encode of a sequence of bytes.
b64encode(bytes) ==
    LET len == Len(bytes)
        at(i) == IF i <= len THEN bytes[i] ELSE 0
        group(g) == at(3 * g + 1) * 65536 + at(3 * g + 2) * 256 + at(3 * g + 3)
        place(j) == IF j = 0 THEN 262144 ELSE IF j = 1 THEN 4096 ELSE IF j = 2 THEN 64 ELSE 1
    IN  [p \in 1..(4 * ((len + 2) \div 3)) |->
            LET g == (p - 1) \div 4
                j == (p - 1) % 4
            IN  IF 3 * g + j > len THEN Pad ELSE (group(g) \div place(j)) % 64]

\* binascii.a2b_base64 reads the string from left to right: an ASCII
\* character outside the alphabet is skipped; a pad character counts only
\* after two or more data characters of the current group of four, a data
\* character resets the pad count, and the reading ends at the pad that
\* completes the group.  PadsBefore is the pad count when position i is read
\* and EndOfData the position where the reading ends (past the end of the
\* string when no pad completes a group).
DataBefore(string, i) == SelectSeq(SubSeq(string, 1, i - 1), LAMBDA ch : ch < Pad)
PadsBefore(string, i) ==
    Cardinality({j \in 1..(i - 1) :
                    /\ string[j] = Pad
                    /\ \A h \in (j + 1)..(i - 1) : string[h] >= Pad})
EndOfData(string) ==
    LET ends == {i \in 1..Len(string) :
                    /\ string[i] = Pad
                    /\ LET quad_pos == Len(DataBefore(string, i)) % 4
                       IN  quad_pos >= 2 /\ quad_pos + PadsBefore(string, i) + 1 >= 4}
    IN  IF ends = {}
        THEN Len(string) + 1
        ELSE CHOOSE i \in ends : \A j \in ends : i <= j

\* base64.b64decode (validate=False) of a str: ValueError when the str holds a
\* character that is not ASCII; binascii.Error when the data characters end
\* inside a group of four that no padding completed; otherwise the bytes of
\* the data characters read.
b64decode(string) ==
    LET end == EndOfData(string)
        data == DataBefore(string, end)
        at(i) == IF i <= Len(data) THEN data[i] ELSE 0
        group(g) == at(4 * g + 1) * 262144 + at(4 * g + 2) * 4096
                        + at(4 * g + 3) * 64 + at(4 * g + 4)
        place(j) == IF j = 0 THEN 65536 ELSE IF j = 1 THEN 256 ELSE 1
    IN  IF \E i \in 1..Len(string) : string[i] = NonAsciiChar
        THEN [status |-> "ValueError", bytes |-> <<>>]
        ELSE IF end > Len(string) /\ Len(data) % 4 # 0
        THEN [status |-> "binascii.Error", bytes |-> <<>>]
        ELSE [status |-> "ok",
              bytes |-> [i \in 1..((Len(data) * 6) \div 8) |->
                            (group((i - 1) \div 3) \div place((i - 1) % 3)) % 256]]

\* bytes[n:]
DropPrefix(bytes, n) == SubSeq(bytes, n + 1, Len(bytes))

\* ------------------------------------------------- Ed25519 and minisign
\* Key pair k has a public key of its own; signing is deterministic and no
\* two pairs (message, key pair) have the same signature.
PublicKey(k) == <<k>> \o Zeros(PublicKeyLen - 1)
KeyId(k) == <<k>> \o Zeros(PrefixLen - 3)
Ed25519Sign(message, k) ==
    <<k, Len(message)>> \o message \o Zeros(crypto_sign_BYTES - 2 - Len(message))

\* base64(<signature_algorithm> || <key_id> || <public_key>)
MinisignPublicKey(k) == b64encode(<<69, 100>> \o KeyId(k) \o PublicKey(k))
\* <signature_algorithm> || <key_id> || <signature>
Envelope(message, k) == <<69, 100>> \o KeyId(k) \o Ed25519Sign(message, k)
\* base64(<signature_algorithm> || <key_id> || <signature>)
MinisignSignature(message, k) == b64encode(Envelope(message, k))

\* eduvpn.settings.VERIFY_KEYS
VERIFY_KEYS == [i \in 1..Len(anchors) |-> MinisignPublicKey(anchors[i])]

\* nacl.bindings.crypto_sign_open: the message of a signed message whose
\* leading signature was made over it with the key pair of public key pk.
crypto_sign_open(smessage, pk) ==
    LET sig == SubSeq(smessage, 1, crypto_sign_BYTES)
        message == DropPrefix(smessage, crypto_sign_BYTES)
    IN  IF /\ Len(smessage) >= crypto_sign_BYTES
           /\ \E k \in Keys : PublicKey(k) = pk /\ Ed25519Sign(message, k) = sig
        THEN [status |-> "ok", message |-> message]
        ELSE [status |-> "BadSignatureError", message |-> <<>>]

\* nacl.signing.VerifyKey.verify(smessage, signature) of the verifier with
\* public key f.  crypto.py does not say which PyNaCl it runs with: from 1.4
\* on verify raises ValueError for a signature that is not crypto_sign_BYTES
\* long, before that it opens signature + smessage whatever the length.
verify(f, smessage, signature) ==
    IF nacl_checks_length /\ Len(signature) # crypto_sign_BYTES
    THEN [status |-> "ValueError", message |-> <<>>]
    ELSE crypto_sign_open(signature \o smessage, f)

\* [VerifyKey(b64decode(k)[10:]) for k in keys]
Verifiers(keys) ==
    [i \in 1..Len(keys) |-> DropPrefix(b64decode(keys[i]).bytes, PrefixLen)]

\* make_verifiers: the verifiers of VERIFY_KEYS
make_verifiers == Verifiers(VERIFY_KEYS)

\* The loop of validate leaving at the first verifier that does not verify.
try_first_only(verifiers, i, smessage, decoded) ==
    IF i > Len(verifiers)
    THEN [status |-> "BadSignatureError", message |-> <<>>, tried |-> Len(verifiers)]
    ELSE LET r == verify(verifiers[i], smessage, decoded)
         IN  [status |-> r.status, message |-> r.message, tried |-> i]

\* The loop of validate without the `raise BadSignatureError` that follows it:
\* when no verifier verifies, validate returns (None).
RECURSIVE try_verifiers_no_raise(_, _, _, _)
try_verifiers_no_raise(verifiers, i, smessage, decoded) ==
    IF i > Len(verifiers)
    THEN [status |-> "ok", message |-> <<>>, tried |-> Len(verifiers)]
    ELSE LET r == verify(verifiers[i], smessage, decoded)
         IN  IF r.status = "BadSignatureError"
             THEN try_verifiers_no_raise(verifiers, i + 1, smessage, decoded)
             ELSE [status |-> r.status, message |-> r.message, tried |-> i]

\* The loop of validate from verifier i on: the first verifier that verifies
\* returns the message; BadSignatureError moves on to the next verifier, any
\* other exception leaves the loop; after the last verifier, BadSignatureError.
RECURSIVE try_verifiers(_, _, _, _)
try_verifiers(verifiers, i, smessage, decoded) ==
    IF i > Len(verifiers)
    THEN [status |-> "BadSignatureError", message |-> <<>>, tried |-> Len(verifiers)]
    ELSE LET r == verify(verifiers[i], smessage, decoded)
         IN  IF r.status = "BadSignatureError"
             THEN try_verifiers(verifiers, i + 1, smessage, decoded)
             ELSE [status |-> r.status, message |-> r.message, tried |-> i]

\* validate that tests the length of the decoded signature itself, before
\* the loop.
validate_checks_length(signature, message) ==
    LET d == b64decode(signature)
        decoded == DropPrefix(d.bytes, PrefixLen)
    IN  IF d.status # "ok"
        THEN [status |-> d.status, message |-> <<>>, tried |-> 0]
        ELSE IF Len(decoded) # crypto_sign_BYTES
        THEN [status |-> "ValueError", message |-> <<>>, tried |-> 0]
        ELSE try_verifiers(make_verifiers, 1, message, decoded)

\* validate(signature, content)
validate(signature, message) ==
    LET d == b64decode(signature)
    IN  IF d.status # "ok"
        THEN [status |-> d.status, message |-> <<>>, tried |-> 0]
        ELSE try_verifiers(make_verifiers, 1, message, DropPrefix(d.bytes, PrefixLen))

\* ------------------------------------------------- validating a document
MessageBytes == {0, 255}
RECURSIVE SeqsUpTo(_, _)
SeqsUpTo(S, n) ==
    IF n = 0 THEN {<<>>}
    ELSE LET shorter == SeqsUpTo(S, n - 1)
         IN  shorter \cup {Append(q, x) : q \in shorter, x \in S}
Messages == SeqsUpTo(MessageBytes, MaxMessageLen)

\* The signature file that comes with the document: as the signer made it,
\* with an ASCII character outside the alphabet in front, with a character
\* that is not ASCII in front, without its last character (the padding), or
\* made of an envelope that lacks its last byte.
Damages == {"none", "junk", "non_ascii", "bad_padding", "short"}
Signature ==
    LET good == MinisignSignature(signed, signer)
        envelope == Envelope(signed, signer)
    IN  CASE damage = "none" -> good
          [] damage = "junk" -> <<JunkChar>> \o good
          [] damage = "non_ascii" -> <<NonAsciiChar>> \o good
          [] damage = "bad_padding" -> SubSeq(good, 1, Len(good) - 1)
          [] damage = "short" -> b64encode(SubSeq(envelope, 1, Len(envelope) - 1))

\* Some key pair has signed some document; validate is given the signature
\* and a content, which is the signed document or another one.
CryptoInit ==
    /\ NMInit
    /\ PluginInstalled
    /\ ObserverIdle
    /\ anchors \in SeqsUpTo(Keys, MaxAnchors)
    /\ signer \in Keys
    /\ signed \in Messages
    /\ content \in Messages
    /\ damage \in Damages
    /\ nacl_checks_length \in BOOLEAN
    /\ result = NotValidated

Validate ==
    /\ result.status = "none"
    /\ result' = validate(Signature, content)
    /\ UNCHANGED <<anchors, signer, signed, content, damage, nacl_checks_length>>
    /\ UNCHANGED <<stored_uuid, next_uuid, manager, loop, history, callbacks, temp_dirs,
                   plugins, observer>>

CryptoNext == Validate

CryptoSpec == CryptoInit /\ [][CryptoNext]_vars

\* ----------------------------------------------------- nm.py: state queries

\* Members of the NM enumerations, by the number NetworkManager gives them.
VpnConnectionState(value) == [enum |-> "VpnConnectionState", value |-> value]
VpnConnectionStateReason(value) == [enum |-> "VpnConnectionStateReason", value |-> value]
ActiveConnectionState(value) == [enum |-> "ActiveConnectionState", value |-> value]
ActiveConnectionStateReason(value) == [enum |-> "ActiveConnectionStateReason", value |-> value]
VpnConnectionState_UNKNOWN == VpnConnectionState(0)
VpnConnectionState_DISCONNECTED == VpnConnectionState(7)
VpnConnectionStateReason_UNKNOWN == VpnConnectionStateReason(0)
VpnConnectionStateReason_NONE == VpnConnectionStateReason(1)

\* An active connection as the manager exposes it: whether it is a VPN
\* connection (the Vpn property, the type NM.VpnConnection), its state and
\* state reason as an active connection and, for a VPN connection, its
\* VpnState.  The VPN connections are one that is connecting (VpnState
\* CONNECT), one that is up (ACTIVATED) and one that the user brought down
\* (DISCONNECTED).
ActiveKinds ==
    {[vpn |-> FALSE, state |-> 2, reason |-> 1, vpn_state |-> 0],
     [vpn |-> TRUE, state |-> 1, reason |-> 1, vpn_state |-> 3],
     [vpn |-> TRUE, state |-> 2, reason |-> 1, vpn_state |-> 5],
     [vpn |-> TRUE, state |-> 4, reason |-> 2, vpn_state |-> 7]}

\* The uuid of the active connection listed at position i.
ActiveUuid(i) == i

nm_state == <<stored_uuid, next_uuid, manager, loop, history, callbacks, temp_dirs>>

\* connection_status: (None, None) unless the primary connection is a VPN
\* connection, else its uuid and its get_state().
connection_status ==
    LET con == nm_primary
    IN  IF con = None \/ ~nm_active[con].vpn
        THEN <<None, None>>
        ELSE <<ActiveUuid(con), ActiveConnectionState(nm_active[con].state)>>

\* The loop of init_dbus_system_bus without the `return` after the callback.
RECURSIVE init_dbus_loop_no_return(_, _)
init_dbus_loop_no_return(listed, i) ==
    IF i > Len(listed)
    THEN <<<<VpnConnectionState_DISCONNECTED, VpnConnectionStateReason_NONE>>>>
    ELSE IF listed[i].vpn
         THEN <<<<VpnConnectionStateReason(listed[i].vpn_state),
                  VpnConnectionStateReason_NONE>>>>
              \o init_dbus_loop_no_return(listed, i + 1)
         ELSE init_dbus_loop_no_return(listed, i + 1)

\* The loop of init_dbus_system_bus from position i on, as the sequence of
\* the callback invocations it makes: for the first connection whose Vpn
\* property is true, callback(NM.VpnConnectionStateReason(vpn_state_raw),
\* NONE) and return; after the loop, callback(DISCONNECTED, NONE).
RECURSIVE init_dbus_loop(_, _)
init_dbus_loop(listed, i) ==
    IF i > Len(listed)
    THEN <<<<VpnConnectionState_DISCONNECTED, VpnConnectionStateReason_NONE>>>>
    ELSE IF listed[i].vpn
         THEN <<<<VpnConnectionStateReason(listed[i].vpn_state),
                  VpnConnectionStateReason_NONE>>>>
         ELSE init_dbus_loop(listed, i + 1)

init_dbus_system_bus == state_reports' = init_dbus_loop(nm_active, 1)

\* get_vpn_status without its `len(vpns) > 1` branch.
get_vpn_status_first_vpn ==
    LET vpns == SelectSeq(nm_active, LAMBDA a : a.vpn)
    IN  IF Len(vpns) = 0
        THEN /\ vpn_status' = <<<<VpnConnectionState_UNKNOWN,
                                  VpnConnectionStateReason_UNKNOWN>>>>
             /\ UNCHANGED warnings
        ELSE /\ vpn_status' = <<<<ActiveConnectionState(vpns[1].state),
                                  ActiveConnectionStateReason(vpns[1].reason)>>>>
             /\ UNCHANGED warnings

\* get_vpn_status: UNKNOWN, UNKNOWN and a warning for more than one active VPN
\* connection, UNKNOWN, UNKNOWN for none, else get_state() and
\* get_state_reason() of the one.
get_vpn_status ==
    LET vpns == SelectSeq(nm_active, LAMBDA a : a.vpn)
    IN  IF Len(vpns) > 1
        THEN /\ warnings' = warnings \cup {"get_vpn_status"}
             /\ vpn_status' = <<<<VpnConnectionState_UNKNOWN,
                                  VpnConnectionStateReason_UNKNOWN>>>>
        ELSE IF Len(vpns) = 0
        THEN /\ vpn_status' = <<<<VpnConnectionState_UNKNOWN,
                                  VpnConnectionStateReason_UNKNOWN>>>>
             /\ UNCHANGED warnings
        ELSE /\ vpn_status' = <<<<ActiveConnectionState(vpns[1].state),
                                  ActiveConnectionStateReason(vpns[1].reason)>>>>
             /\ UNCHANGED warnings

\* The manager has some connections active, one of them (or none) primary,
\* and no query has been made.
ObserverInit ==
    /\ NMInit
    /\ PluginInstalled
    /\ CryptoIdle
    /\ nm_active \in SeqsUpTo(ActiveKinds, MaxActive)
    /\ nm_primary \in {None} \cup (1..Len(nm_active))
    /\ state_reports = <<>>
    /\ polled = <<>>
    /\ vpn_status = <<>>
    /\ warnings = {}

\* The application subscribes to VPN state changes.
Subscribe ==
    /\ state_reports = <<>>
    /\ init_dbus_system_bus
    /\ UNCHANGED <<nm_active, nm_primary, polled, vpn_status, warnings>>
    /\ UNCHANGED <<nm_state, plugins, crypto>>

\* The application asks for the status of the primary connection.
Poll ==
    /\ polled = <<>>
    /\ polled' = <<connection_status>>
    /\ UNCHANGED <<nm_active, nm_primary, state_reports, vpn_status, warnings>>
    /\ UNCHANGED <<nm_state, plugins, crypto>>

\* The application asks for the VPN status.
VpnStatus ==
    /\ vpn_status = <<>>
    /\ get_vpn_status
    /\ UNCHANGED <<nm_active, nm_primary, state_reports, polled>>
    /\ UNCHANGED <<nm_state, plugins, crypto>>

ObserverNext ==
    \/ Subscribe
    \/ Poll
    \/ VpnStatus

ObserverSpec == ObserverInit /\ [][ObserverNext]_vars

\* ===================================================== claims about nm.py

\* The call a step issues, if it issues one.
Issued(op) == Len(calls') = Len(calls) + 1 /\ calls'[Len(calls')].op = op
\* The requests a step hands to the manager, and those it completes.
NewRequests == in_flight' \ in_flight
Finished == in_flight \ in_flight'
CallsOf(op) == {c \in 1..Len(calls) : calls[c].op = op}

\* C1: every activate_connection call given a callback invokes it exactly
\* once, and only after the activation has completed; in particular once the
\* activation issued for the call (by the first entry or by a retry) has
\* completed, the callback has been invoked once.
C1_ActivateCallbackOnce ==
    \A c \in CallsOf("activate") :
        calls[c].callback =>
            /\ cb_count[c] <= 1
            /\ cb_count[c] = 1 => outcome[c] # "pending"
            /\ outcome[c] # "pending" => cb_count[c] = 1

\* C2: every deactivate_connection call given a callback invokes it exactly
\* once: when no deactivation is outstanding for the call (it was a no-op, or
\* the deactivation has completed) the callback has been invoked once.
C2_DeactivateCallbackOnce ==
    \A c \in CallsOf("deactivate") :
        calls[c].callback =>
            /\ cb_count[c] <= 1
            /\ (\A r \in in_flight : r.origin # c) => cb_count[c] = 1

\* C3: a deactivate_connection call hands the manager a deactivation only
\* when there is a primary connection with the given uuid, and then exactly
\* one, for that connection; otherwise it hands it nothing; in both cases the
\* stored uuid and the manager's connections and active connections stay as
\* they are.
C3_DeactivateOnlyMatchingPrimary ==
    [][Issued("deactivate") =>
        LET c == Len(calls')
            uuid == calls'[c].uuid
        IN  /\ IF primary # None /\ primary = uuid
               THEN \E r \in NewRequests :
                        /\ NewRequests = {r}
                        /\ r.kind = "deactivate"
                        /\ r.con = primary
               ELSE in_flight' = in_flight
            /\ Finished = {}
            /\ idle' = idle
            /\ stored_uuid' = stored_uuid
            /\ manager' = manager]_vars

C3_Witness ==
    \E c, d \in CallsOf("deactivate") :
        /\ path[c] = "mismatch"
        /\ primary # None
        /\ path[d] = "deactivate"
        /\ \E r \in in_flight : r.origin = d /\ r.kind = "deactivate"

\* C4: a save_connection call (of a profile that imports) made while no uuid is stored hands the manager
\* an add of the new connection (never a commit), and when that add completes
\* successfully the stored uuid is the uuid of the connection the manager now
\* holds for it.
C4_InsertWhenNothingStored ==
    [][/\ (Issued("save") /\ imported /\ stored_uuid = None) =>
            /\ \E r \in NewRequests :
                    /\ NewRequests = {r}
                    /\ r.kind = "add"
                    /\ r.con \notin connections
            /\ connections' = connections
            /\ settings' = settings
       /\ \A r \in Finished :
            (r.kind = "add" /\ seen[r.origin] = None /\ outcome'[r.origin] = "ok") =>
                /\ r.con \in connections' \ connections
                /\ stored_uuid' = r.con]_vars

C4_Witness ==
    \E c \in CallsOf("save") :
        /\ seen[c] = None
        /\ path[c] = "insert"
        /\ outcome[c] = "ok"
        /\ stored_uuid \in connections
        /\ settings[stored_uuid] = c

\* C5: a save_connection call (of a profile that imports) made while the stored uuid X does not resolve
\* hands the manager an add of the new connection, and when that add
\* completes successfully the stored uuid is the new connection's, which is
\* not X.
C5_StaleIdFallsBackToInsert ==
    [][/\ (Issued("save") /\ imported /\ stored_uuid # None /\ stored_uuid \notin connections) =>
            \E r \in NewRequests :
                /\ NewRequests = {r}
                /\ r.kind = "add"
                /\ r.con # stored_uuid
       /\ \A r \in Finished :
            (r.kind = "add" /\ seen[r.origin] # None /\ outcome'[r.origin] = "ok") =>
                /\ stored_uuid' = r.con
                /\ stored_uuid' # seen[r.origin]
                /\ stored_uuid' \in connections']_vars

C5_Witness ==
    \E c \in CallsOf("save") :
        /\ seen[c] # None
        /\ path[c] = "insert"
        /\ outcome[c] = "ok"
        /\ stored_uuid # seen[c]
        /\ stored_uuid \in connections
        /\ settings[stored_uuid] = c

\* C6: a save_connection call (of a profile that imports) made while the stored uuid resolves replaces
\* the settings of the resolved connection by the new profile's and hands the
\* manager a commit for that connection and nothing else; neither the call
\* nor the completion of the commit changes the stored uuid or the set of
\* connections.
C6_UpdateKeepsId ==
    [][/\ (Issued("save") /\ imported /\ stored_uuid # None /\ stored_uuid \in connections) =>
            /\ settings' = [settings EXCEPT ![stored_uuid] = Len(calls')]
            /\ \E r \in NewRequests :
                    /\ NewRequests = {r}
                    /\ r.kind = "commit"
                    /\ r.con = stored_uuid
            /\ connections' = connections
            /\ stored_uuid' = stored_uuid
       /\ \A r \in Finished :
            r.kind = "commit" =>
                /\ connections' = connections
                /\ stored_uuid' = stored_uuid]_vars

C6_Witness ==
    \E c \in CallsOf("save") :
        /\ path[c] = "update"
        /\ outcome[c] = "ok"
        /\ stored_uuid = seen[c]
        /\ settings[stored_uuid] = c

\* C7: when the manager rejects the add or the commit of a save_connection
\* call given a callback, the callback is invoked once, with False, and
\* no second request is issued for the call.
C7_RejectionReachesCallback ==
    \A c \in CallsOf("save") :
        (calls[c].callback /\ outcome[c] = "rejected") =>
            /\ cb_count[c] = 1
            /\ cb_arg[c] = "False"
            /\ requests[c] = 1

\* C8: one activate_connection call resolves its uuid at most twice and
\* schedules at most one deferred re-entry, even when the uuid never
\* resolves: a second not-found is terminal.
C8_AtMostOneRetry ==
    \A c \in CallsOf("activate") : resolutions[c] <= 2 /\ scheduled[c] <= 1

\* C9: a wrapper inside main_loop.run() returns: as long as it has not, some
\* outstanding request or idle source carries quit_loop, the only thing that
\* ends main_loop.run().
C9_WrapperCanReturn ==
    main_loop # None =>
        \/ \E r \in in_flight : r.user_data = main_loop
        \/ \E s \in idle : s.callback = main_loop

\* ================================================= claims about crypto.py

Validated == result.status # "none"
Trusted(k) == \E i \in 1..Len(anchors) : anchors[i] = k

\* C10: when the content is the document that was signed and the signer's
\* public key is among the verify keys, at whatever position, validate
\* returns the document, byte for byte.
C10_SignedByAnchorValidates ==
    (Validated /\ damage = "none" /\ content = signed /\ Trusted(signer)) =>
        /\ result.status = "ok"
        /\ result.message = signed
        /\ anchors[result.tried] = signer

C10_Witness ==
    /\ Validated
    /\ damage = "none"
    /\ content = signed
    /\ Len(signed) > 0
    /\ Len(anchors) >= 2
    /\ anchors[1] # signer
    /\ anchors[Len(anchors)] = signer
    /\ result.status = "ok"
    /\ result.message = signed
    /\ result.tried = Len(anchors)

\* C11: a signature made by a key pair whose public key is not among the
\* verify keys makes validate raise BadSignatureError and return nothing;
\* with no verify keys at all validate never returns a message.
C11_UntrustedSignerFails ==
    Validated =>
        /\ (damage \in {"none", "junk"} /\ ~Trusted(signer)) =>
                /\ result.status = "BadSignatureError"
                /\ result.message = <<>>
        /\ Len(anchors) = 0 =>
                /\ result.status # "ok"
                /\ result.message = <<>>

C11_Witness ==
    /\ Validated
    /\ damage = "none"
    /\ content = signed
    /\ Len(anchors) >= 2
    /\ ~Trusted(signer)
    /\ result.status = "BadSignatureError"
    /\ result.tried = Len(anchors)

\* What validate does when VERIFY_KEYS is keys, for the content at hand and
\* the signature that decodes as d.
ValidateDecodedUnder(d, keys) ==
    IF d.status # "ok"
    THEN [status |-> d.status, message |-> <<>>, tried |-> 0]
    ELSE try_verifiers(Verifiers(keys), 1, content, DropPrefix(d.bytes, PrefixLen))
ValidateUnder(keys) == ValidateDecodedUnder(b64decode(Signature), keys)
Reorderings(seq) ==
    {[i \in 1..Len(seq) |-> seq[f[i]]] : f \in Permutations(1..Len(seq))}
Outcome(r) == <<r.status, r.message>>

\* C12: for the signature and content at hand, validate ends the same way
\* (the same message returned, or the same exception) under every reordering
\* of VERIFY_KEYS.
C12_OrderIndependent ==
    Validated =>
        LET d == b64decode(Signature)
            decoded == [status |-> d.status, bytes |-> d.bytes]
            keys == [i \in 1..Len(anchors) |-> VERIFY_KEYS[i]]
        IN  \A p \in Reorderings(keys) \ {keys} :
                Outcome(ValidateDecodedUnder(decoded, p)) = Outcome(result)

C12_Witness ==
    /\ Validated
    /\ damage = "none"
    /\ result.status = "ok"
    /\ \E p \in Reorderings(VERIFY_KEYS) :
            /\ p # VERIFY_KEYS
            /\ ValidateUnder(p).status = "ok"
            /\ ValidateUnder(p).tried # result.tried

\* C15 as claimed: a malformed envelope (characters outside the alphabet, bad
\* padding, a decoded blob shorter than prefix plus signature) makes validate
\* fail before any verifier is tried, with an error that is not
\* BadSignatureError.
C15_MalformedFailsBeforeVerification ==
    (Validated /\ damage # "none") =>
        /\ result.status \notin {"ok", "BadSignatureError"}
        /\ result.tried = 0

\* C15 amended: validate fails before any verifier is tried only for a
\* signature that does not decode: binascii.Error for bad padding, ValueError
\* for a character that is not ASCII.  An ASCII character outside the
\* alphabet is discarded and changes nothing.  An undersized blob is not
\* detected by validate: with no verifier it ends in BadSignatureError; with a
\* PyNaCl that checks the signature length the first verifier tried raises
\* ValueError; with one that does not, every verifier opens the short
\* signature followed by the content, which ends in BadSignatureError unless
\* the first byte of the content completes the signature of the rest, and
\* then the rest is returned.
C15_OnlyUndecodableFailsEarly ==
    Validated =>
        /\ damage = "bad_padding" =>
                /\ result.status = "binascii.Error"
                /\ result.tried = 0
                /\ result.message = <<>>
        /\ damage = "non_ascii" =>
                /\ result.status = "ValueError"
                /\ result.tried = 0
                /\ result.message = <<>>
        /\ damage = "junk" =>
                result = validate(MinisignSignature(signed, signer), content)
        /\ damage = "short" =>
                /\ Len(anchors) = 0 =>
                        result.status = "BadSignatureError" /\ result.tried = 0
                /\ Len(anchors) > 0 => result.tried >= 1
                /\ (nacl_checks_length /\ Len(anchors) > 0) =>
                        /\ result.status = "ValueError"
                        /\ result.tried = 1
                        /\ result.message = <<>>
                /\ ~nacl_checks_length =>
                        /\ result.status \in {"ok", "BadSignatureError"}
                        /\ result.status = "BadSignatureError" =>
                                result.tried = Len(anchors)
                        /\ result.status = "ok" =>
                                /\ Trusted(signer)
                                /\ Len(content) >= 1
                                /\ result.message = DropPrefix(content, 1)
                                /\ result.message = signed

\* An undersized blob has reached the verifiers under either PyNaCl: the
\* first one raised ValueError, or all of them were tried in vain.
C15_Witness ==
    /\ Validated
    /\ damage = "short"
    /\ content = signed
    /\ Trusted(signer)
    /\ \/ nacl_checks_length /\ result.status = "ValueError" /\ result.tried = 1
       \/ /\ ~nacl_checks_length
          /\ result.status = "BadSignatureError"
          /\ result.tried = Len(anchors)

\* C17: no directory that import_ovpn made outlives the call that made it,
\* whether the import succeeded or failed: between calls no such directory
\* exists.
C17_TempDirRemoved ==
    temp_dirs = 0

\* C16: an activate_connection call whose uuid resolves on its first entry
\* issues one activation and schedules nothing; its callback has been invoked
\* exactly once when the activation has completed, successfully or not, and
\* not at all before; a failed activation is logged and no exception leaves
\* the completion handler.
C16_ActivateCompletionInvokesCallback ==
    \A c \in CallsOf("activate") :
        path[c] = "activate" =>
            /\ requests[c] = 1
            /\ resolutions[c] = 1
            /\ scheduled[c] = 0
            /\ outcome[c] = "pending" <=>
                    \E r \in in_flight : r.origin = c /\ r.kind = "activate"
            /\ calls[c].callback =>
                    cb_count[c] = IF outcome[c] = "pending" THEN 0 ELSE 1
            /\ ~calls[c].callback => cb_count[c] = 0
            /\ errors[c] = IF outcome[c] = "rejected" THEN "logged" ELSE "none"

C16_Witness ==
    \E c, d \in CallsOf("activate") :
        /\ path[c] = "activate" /\ calls[c].callback
        /\ outcome[c] = "rejected" /\ cb_count[c] = 1 /\ errors[c] = "logged"
        /\ path[d] = "activate" /\ calls[d].callback
        /\ outcome[d] = "ok" /\ cb_count[d] = 1

\* C18: the stored uuid is written by the completion handler of an add,
\* with the uuid of the added connection, and by nothing else: a step that
\* issues a call, runs a retry or completes a commit, an activation or a
\* deactivation leaves it as it was, and so does the completion of a rejected
\* add.
C18_OnlyAddCompletionWritesId ==
    [][/\ stored_uuid' # stored_uuid =>
            \E r \in Finished :
                /\ r.kind = "add"
                /\ outcome'[r.origin] = "ok"
                /\ stored_uuid' = r.con
       /\ (\/ Len(calls') # Len(calls)
           \/ idle' # idle
           \/ \E r \in Finished :
                \/ r.kind # "add"
                \/ outcome'[r.origin] = "rejected") => stored_uuid' = stored_uuid]_vars

\* An add has completed and stored its uuid, and the activation of that
\* connection, issued by a retry once the uuid resolved, has completed after
\* it.
C18_Witness ==
    \E c \in CallsOf("save"), d \in CallsOf("activate") :
        /\ path[c] = "insert" /\ outcome[c] = "ok"
        /\ resolutions[d] >= 2 /\ outcome[d] = "ok"
        /\ stored_uuid = calls[d].uuid

\* C19: one activate_connection call issues at most one activation request;
\* each of its entries either scheduled one re-entry or issued the activation
\* (entries = re-entries scheduled + activations issued); every scheduled
\* re-entry has run once, except the last one while no activation is issued
\* yet, which is still scheduled, once.
C19_OneActivationPerCall ==
    \A c \in CallsOf("activate") :
        /\ requests[c] <= 1
        /\ resolutions[c] = scheduled[c] + requests[c]
        /\ Cardinality({s \in idle : s.origin = c}) = 1 - requests[c]
        /\ \A s \in idle : s.origin = c => s.n = scheduled[c]

C19_Witness ==
    \E c \in CallsOf("activate") :
        /\ scheduled[c] = 2
        /\ requests[c] = 1
        /\ resolutions[c] = 3
        /\ idle = {}

\* The connections the manager holds that this client imported.
ClientConnections == connections \cap ImportedUuids

\* No save_connection call was made while the add or the commit of an earlier
\* one was in flight.
SavesInSequence == \A c \in CallsOf("save") : ~calls[c].overlap

Vpns == SelectSeq(nm_active, LAMBDA a : a.vpn)

\* C13 (as claimed): init_dbus_system_bus has invoked the callback once, with
\* the VpnState of the VPN connection when exactly one active connection is
\* a VPN connection and with DISCONNECTED when none or more than one is.
C13_OneVpnOrDisconnected ==
    state_reports # <<>> =>
        /\ Len(state_reports) = 1
        /\ state_reports[1][1].value =
                IF Len(Vpns) = 1 THEN Vpns[1].vpn_state
                                 ELSE VpnConnectionState_DISCONNECTED.value

\* C13 (amended): init_dbus_system_bus has invoked the callback once: with
\* the VpnState number of the first VPN connection among the active ones, as
\* a member of VpnConnectionStateReason, when there is at least one, and with
\* DISCONNECTED when there is none; the reason argument is NONE.
C13_FirstVpnOrDisconnected ==
    state_reports # <<>> =>
        /\ Len(state_reports) = 1
        /\ state_reports[1][2] = VpnConnectionStateReason_NONE
        /\ Len(Vpns) = 0 => state_reports[1][1] = VpnConnectionState_DISCONNECTED
        /\ Len(Vpns) >= 1 =>
                /\ state_reports[1][1].value = Vpns[1].vpn_state
                /\ state_reports[1][1].enum = "VpnConnectionStateReason"

C13_Witness ==
    /\ Len(Vpns) >= 2
    /\ ~nm_active[1].vpn
    /\ Vpns[1].vpn_state # Vpns[2].vpn_state
    /\ Len(state_reports) = 1
    /\ state_reports[1][1].value = Vpns[1].vpn_state
    /\ state_reports[1][1].value # VpnConnectionState_DISCONNECTED.value

\* C14 (as claimed): while more than one VPN connection is active,
\* connection_status returns (None, None) and get_vpn_status returns
\* (UNKNOWN, UNKNOWN), and each logs a warning.
C14_NeitherQueryPicksOne ==
    Len(Vpns) > 1 =>
        /\ polled # <<>> =>
                /\ polled[1] = <<None, None>>
                /\ "connection_status" \in warnings
        /\ vpn_status # <<>> =>
                /\ vpn_status[1] = <<VpnConnectionState_UNKNOWN,
                                     VpnConnectionStateReason_UNKNOWN>>
                /\ "get_vpn_status" \in warnings

\* C14 (amended): while more than one VPN connection is active,
\* get_vpn_status returns (UNKNOWN, UNKNOWN) and logs a warning;
\* connection_status does not look at how many are active: it returns the
\* uuid and state of the primary connection when that is a VPN connection and
\* (None, None) otherwise, and logs nothing.
C14_OnlyGetVpnStatusRefuses ==
    /\ (vpn_status # <<>> /\ Len(Vpns) > 1) =>
            /\ vpn_status[1] = <<VpnConnectionState_UNKNOWN,
                                 VpnConnectionStateReason_UNKNOWN>>
            /\ "get_vpn_status" \in warnings
    /\ polled # <<>> =>
            /\ "connection_status" \notin warnings
            /\ (nm_primary # None /\ nm_active[nm_primary].vpn) =>
                    /\ polled[1][1] = ActiveUuid(nm_primary)
                    /\ polled[1][2].value = nm_active[nm_primary].state
            /\ (nm_primary = None \/ ~nm_active[nm_primary].vpn) =>
                    polled[1] = <<None, None>>

C14_Witness ==
    /\ Len(Vpns) = 2
    /\ vpn_status = <<<<VpnConnectionState_UNKNOWN, VpnConnectionStateReason_UNKNOWN>>>>
    /\ warnings = {"get_vpn_status"}
    /\ polled # <<>>
    /\ polled[1][1] # None

====
